---------------------------- MODULE Spec2Model ----------------------------
(***************************************************************************)
(* State-machine model of src/debug.cc: the NCCL debug/logging subsystem.  *)
(*                                                                         *)
(*   ncclDebugSetDistributorParams  (lines 43-59)                          *)
(*   ncclDebugInit                  (lines 61-181)                         *)
(*   ncclDebugLog                   (lines 206-261)                        *)
(*                                                                         *)
(* C strings are sequences of one-character strings; the terminating NUL   *)
(* is the character NUL where a buffer's raw bytes matter.  A 64-bit mask  *)
(* is the set of its set bit positions (0..63).  A message is the pair of  *)
(* its identity and its formatted length; a bounded formatter keeps the    *)
(* first cap-1 characters and reports the whole length.                    *)
(***************************************************************************)
EXTENDS Integers, Sequences, FiniteSets, TLC

(***************************************************************************)
(* Bounds of the model.                                                    *)
(***************************************************************************)
NThreads == 2
MaxCalls == 2
MaxClock == 1

Threads == 1..NThreads
NoThread == 0

(***************************************************************************)
(* Characters and C string helpers.                                        *)
(***************************************************************************)
NUL == "\\0"

UpperCase ==
  << "A","B","C","D","E","F","G","H","I","J","K","L","M",
     "N","O","P","Q","R","S","T","U","V","W","X","Y","Z" >>

LowerCase ==
  << "a","b","c","d","e","f","g","h","i","j","k","l","m",
     "n","o","p","q","r","s","t","u","v","w","x","y","z" >>

\* tolower(3) on one character
tolower(ch) ==
  IF \E i \in 1..26 : UpperCase[i] = ch
    THEN LowerCase[CHOOSE i \in 1..26 : UpperCase[i] = ch]
    ELSE ch

\* strcasecmp(a, b) == 0
strcasecmpEq(a, b) ==
  /\ Len(a) = Len(b)
  /\ \A i \in 1..Len(a) : tolower(a[i]) = tolower(b[i])

\* An optional C string (a pointer that may be NULL): <<>> is NULL, <<s>> is s.
NULL == << >>
Some(s) == << s >>
IsNull(p) == p = << >>
Deref(p) == p[1]

Digits == << "0","1","2","3","4","5","6","7","8","9" >>

\* the decimal digit character of d in 0..9
DigitChar(d) == Digits[d + 1]

RECURSIVE NatToDec(_)
\* decimal rendering of a natural number, as operator<< and %d print it
NatToDec(n) ==
  IF n < 10 THEN << DigitChar(n) >>
            ELSE Append(NatToDec(n \div 10), DigitChar(n % 10))

\* decimal rendering of an int
IntToDec(n) == IF n < 0 THEN << "-" >> \o NatToDec(0 - n) ELSE NatToDec(n)


Min(a, b) == IF a < b THEN a ELSE b
Max(a, b) == IF a > b THEN a ELSE b

(***************************************************************************)
(* Program constants.                                                      *)
(***************************************************************************)
\* ncclDebugLogLevel (declared outside debug.cc): NONE < VERSION < WARN <
\* INFO < ABORT < TRACE
NCCL_LOG_NONE == 0
NCCL_LOG_VERSION == 1
NCCL_LOG_WARN == 2
NCCL_LOG_INFO == 3
NCCL_LOG_ABORT == 4
NCCL_LOG_TRACE == 5

\* the value of ncclDebugLevel before ncclDebugInit has stored a level
Uninitialized == -1

\* ncclDebugSubSys bits (declared outside debug.cc), as sets of bit positions
NCCL_INIT == {0}
NCCL_COLL == {1}
NCCL_P2P == {2}
NCCL_SHM == {3}
NCCL_NET == {4}
NCCL_GRAPH == {5}
NCCL_TUNING == {6}
NCCL_ENV == {7}
NCCL_ALLOC == {8}
NCCL_CALL == {9}
NCCL_PROXY == {10}
NCCL_NVLS == {11}
NCCL_BOOTSTRAP == {12}
NCCL_REG == {13}
\* NCCL_ALL = ~0, and ~0ULL: every bit of a uint64_t
NCCL_ALL == 0..63

\* sizeof(ncclLastError)
LastErrorSize == 1024
\* sizeof(buffer) in ncclDebugLog
BufferSize == 2048
\* sizeof(hostname)
HostNameSize == 1024
\* PATH_MAX of <limits.h>; debugFn holds PATH_MAX+1 bytes
PATH_MAX == 4096

S_VERSION == << "V","E","R","S","I","O","N" >>
S_WARN == << "W","A","R","N" >>
S_INFO == << "I","N","F","O" >>
S_ABORT == << "A","B","O","R","T" >>
S_TRACE == << "T","R","A","C","E" >>

S_INIT == << "I","N","I","T" >>
S_COLL == << "C","O","L","L" >>
S_P2P == << "P","2","P" >>
S_SHM == << "S","H","M" >>
S_NET == << "N","E","T" >>
S_GRAPH == << "G","R","A","P","H" >>
S_TUNING == << "T","U","N","I","N","G" >>
S_ENV == << "E","N","V" >>
S_ALLOC == << "A","L","L","O","C" >>
S_CALL == << "C","A","L","L" >>
S_PROXY == << "P","R","O","X","Y" >>
S_NVLS == << "N","V","L","S" >>
S_BOOTSTRAP == << "B","O","O","T","S","T","R","A","P" >>
S_REG == << "R","E","G" >>
S_ALL == << "A","L","L" >>

(***************************************************************************)
(* numDigits and the zero-padded rendering of ncclDebugSetDistributorParams*)
(***************************************************************************)
RECURSIVE numDigitsLoop(_, _)
\* the while loop of numDigits: n and ndigits are its two locals
numDigitsLoop(n, ndigits) ==
  IF n > 0 THEN numDigitsLoop(n \div 10, ndigits + 1) ELSE ndigits

numDigits(n) == numDigitsLoop(n, 0)

\* oss << std::setfill('0') << std::setw(w) << n : the rendering of n, filled
\* on the left with '0' up to w characters (never cut)
SetfillSetw(w, n) ==
  LET s == IntToDec(n)
  IN  [i \in 1..Max(w - Len(s), 0) |-> "0"] \o s

(***************************************************************************)
(* NCCL_DEBUG: the level ncclDebugInit computes into tempNcclDebugLevel.   *)
(***************************************************************************)
DebugLevelOf(nccl_debug) ==
  IF IsNull(nccl_debug) THEN NCCL_LOG_NONE
  ELSE IF strcasecmpEq(Deref(nccl_debug), S_VERSION) THEN NCCL_LOG_VERSION
  ELSE IF strcasecmpEq(Deref(nccl_debug), S_WARN) THEN NCCL_LOG_WARN
  ELSE IF strcasecmpEq(Deref(nccl_debug), S_INFO) THEN NCCL_LOG_INFO
  ELSE IF strcasecmpEq(Deref(nccl_debug), S_ABORT) THEN NCCL_LOG_ABORT
  ELSE IF strcasecmpEq(Deref(nccl_debug), S_TRACE) THEN NCCL_LOG_TRACE
  ELSE -1

(***************************************************************************)
(* NCCL_DEBUG_SUBSYS: strtok over "," and the strcasecmp chain.            *)
(***************************************************************************)
RECURSIVE SkipDelims(_)
\* strtok: skip the leading delimiters
SkipDelims(s) ==
  IF s # << >> /\ Head(s) = "," THEN SkipDelims(Tail(s)) ELSE s

RECURSIVE TokenLen(_)
\* strtok: the length of the token s starts with (up to the next delimiter)
TokenLen(s) ==
  IF s = << >> \/ Head(s) = "," THEN 0 ELSE 1 + TokenLen(Tail(s))

\* the mask of one token: 0 when no name matches
SubsysMask(subsys) ==
  IF strcasecmpEq(subsys, S_INIT) THEN NCCL_INIT
  ELSE IF strcasecmpEq(subsys, S_COLL) THEN NCCL_COLL
  ELSE IF strcasecmpEq(subsys, S_P2P) THEN NCCL_P2P
  ELSE IF strcasecmpEq(subsys, S_SHM) THEN NCCL_SHM
  ELSE IF strcasecmpEq(subsys, S_NET) THEN NCCL_NET
  ELSE IF strcasecmpEq(subsys, S_GRAPH) THEN NCCL_GRAPH
  ELSE IF strcasecmpEq(subsys, S_TUNING) THEN NCCL_TUNING
  ELSE IF strcasecmpEq(subsys, S_ENV) THEN NCCL_ENV
  ELSE IF strcasecmpEq(subsys, S_ALLOC) THEN NCCL_ALLOC
  ELSE IF strcasecmpEq(subsys, S_CALL) THEN NCCL_CALL
  ELSE IF strcasecmpEq(subsys, S_PROXY) THEN NCCL_PROXY
  ELSE IF strcasecmpEq(subsys, S_NVLS) THEN NCCL_NVLS
  ELSE IF strcasecmpEq(subsys, S_BOOTSTRAP) THEN NCCL_BOOTSTRAP
  ELSE IF strcasecmpEq(subsys, S_REG) THEN NCCL_REG
  ELSE IF strcasecmpEq(subsys, S_ALL) THEN NCCL_ALL
  ELSE {}

\* one pass of the while loop's body: ncclDebugMask after the token's mask
ApplySubsys(debugMask, invert, mask) ==
  IF mask # {}
    THEN IF invert THEN debugMask \ mask ELSE debugMask \cup mask
    ELSE debugMask

RECURSIVE SubsysLoop(_, _, _)
\* the strtok loop over what is left of the list
SubsysLoop(rest, invert, debugMask) ==
  LET s == SkipDelims(rest)
      n == TokenLen(s)
  IN  IF s = << >> THEN debugMask
      ELSE SubsysLoop(SubSeq(s, n + 1, Len(s)), invert,
                      ApplySubsys(debugMask, invert, SubsysMask(SubSeq(s, 1, n))))

\* whether the list starts with '^'
SubsysInvert(list) == list # << >> /\ Head(list) = "^"

\* the list after the optional '^'
SubsysBody(list) == IF SubsysInvert(list) THEN Tail(list) ELSE list

\* a mask that starts from the default bits when the list is not inverted
SubsysStart_KeepsDefault(invert) ==
  IF invert THEN NCCL_ALL ELSE NCCL_INIT \cup NCCL_ENV

\* ncclDebugMask = invert ? ~0ULL : 0ULL
SubsysStart(invert) == IF invert THEN NCCL_ALL ELSE {}

(***************************************************************************)
(* Messages and bounded formatting.                                        *)
(***************************************************************************)
\* the text a formatter produces from (fmt, args): its identity and length
EmptyText == [id |-> 0, len |-> 0]

\* what vsnprintf(dst, size, fmt, args) leaves in dst (size >= 1): the first
\* size-1 characters of the message; its return value is m.len
Vsnprintf(m, size) == [id |-> m.id, len |-> Min(m.len, size - 1)]

(***************************************************************************)
(* State.                                                                  *)
(***************************************************************************)
VARIABLES
  ncclDebugLevel,   \* int ncclDebugLevel (line 20)
  rank,             \* static std::string rank (line 21)
  nranks,           \* static std::string nranks (line 22)
  pid,              \* static int pid (line 23)
  hostname,         \* static char hostname[1024] (line 24), as a C string
  ncclDebugNoWarn,  \* thread_local int ncclDebugNoWarn (line 25), a bit set
  ncclLastError,    \* char ncclLastError[1024] (line 26)
  ncclDebugMask,    \* uint64_t ncclDebugMask (line 27)
  ncclDebugFile,    \* FILE *ncclDebugFile (line 28): 0 is stdout, n > 0 a file
  ncclDebugLock,    \* pthread_mutex_t ncclDebugLock (line 29): its owner
  ncclEpoch,        \* ncclEpoch (line 30)
  tid,              \* static __thread int tid (line 32)
  env,              \* the process environment and the operating system
  clock,            \* std::chrono::steady_clock
  nOpen,            \* the files fopen has opened so far
  pc,               \* where each thread is
  fr,               \* each thread's call frame: arguments and locals
  ncalls,           \* calls started so far (bounds the model)
  nParse,           \* times the body of ncclDebugInit (lines 64-179) was entered
  initDone,         \* a call of ncclDebugInit has returned
  lastWarn,         \* message of the last call that took the mutex at line 212
  lastWarnCall,     \* message of the last call invoked with WARN to pass
                    \* line 208
  warnRet,          \* a ncclDebugLog call invoked with WARN has returned
  warnKeptRet       \* and one that line 208 left at WARN has returned

vars == << ncclDebugLevel, rank, nranks, pid, hostname, ncclDebugNoWarn,
           ncclLastError, ncclDebugMask, ncclDebugFile, ncclDebugLock,
           ncclEpoch, tid, env, clock, nOpen, pc, fr, ncalls, nParse,
           initDone, lastWarn, lastWarnCall, warnRet, warnKeptRet >>

\* the program's globals other than the mutex
globals == << ncclDebugLevel, rank, nranks, pid, hostname, ncclLastError,
              ncclDebugMask, ncclDebugFile, ncclEpoch >>

\* the state only the environment and the bookkeeping own
ghosts == << nParse, initDone, lastWarn, lastWarnCall, warnRet, warnKeptRet >>

stdout == 0

\* a frame with no call in it
IdleFrame ==
  [ op |-> "idle", ret |-> "done",
    \* ncclDebugLog's arguments
    level |-> 0, flags |-> {}, msg |-> EmptyText, filefunc |-> 0, line |-> 0,
    \* the level the call was made with, and whether it began after a call
    \* of ncclDebugInit had returned
    argLevel |-> 0, late |-> FALSE,
    \* ncclDebugInit's locals
    temp |-> -1, invert |-> FALSE, c |-> 0, debugFn |-> << >>,
    oob |-> FALSE, overread |-> FALSE,
    \* ncclDebugSetDistributorParams' arguments and locals
    a_rank |-> 0, a_nranks |-> 0, ndigits |-> 0,
    \* what ncclDebugLog read and did
    rdLevel |-> -1, rdMask |-> {}, rdRank |-> << >>, rdNranks |-> << >>,
    len |-> 0, writes |-> 0, bytes |-> 0, sink |-> stdout, storeMax |-> -1,
    label |-> "", text |-> EmptyText,
    \* the indices of buffer that held the newline and the last NUL a
    \* formatter stored when fwrite was called
    nlAt |-> -1, nulAt |-> -1 ]

\* the static initializers of lines 20-32, and an environment e
InitWith(e) ==
  /\ ncclDebugLevel = -1
  /\ rank = << "?" >>
  /\ nranks = << "?" >>
  /\ pid = -1
  /\ hostname = << >>
  /\ ncclDebugNoWarn = [t \in Threads |-> {}]
  /\ ncclLastError = EmptyText
  /\ ncclDebugMask = NCCL_INIT \cup NCCL_ENV
  /\ ncclDebugFile = stdout
  /\ ncclDebugLock = NoThread
  /\ ncclEpoch = 0
  /\ tid = [t \in Threads |-> -1]
  /\ env = e
  /\ clock = 0
  /\ nOpen = 0
  /\ pc = [t \in Threads |-> "idle"]
  /\ fr = [t \in Threads |-> IdleFrame]
  /\ ncalls = 0
  /\ nParse = 0
  /\ initDone = FALSE
  /\ lastWarn = EmptyText
  /\ lastWarnCall = EmptyText
  /\ warnRet = FALSE
  /\ warnKeptRet = FALSE

Goto(t, where) == pc' = [pc EXCEPT ![t] = where]

(***************************************************************************)
(* ncclDebugInit (lines 61-181).                                           *)
(***************************************************************************)
\* a call of ncclDebugInit() by a caller of the library
CallInit(t) ==
  /\ pc[t] = "idle"
  /\ ncalls < MaxCalls
  /\ ncalls' = ncalls + 1
  /\ fr' = [fr EXCEPT ![t] = [IdleFrame EXCEPT !.op = "init", !.ret = "done",
                                               !.late = initDone]]
  /\ Goto(t, "init_lock")
  /\ UNCHANGED << globals, ncclDebugLock, ncclDebugNoWarn, tid, env, clock,
                  nOpen, ghosts >>

\* line 62: pthread_mutex_lock
InitLock(t) ==
  /\ pc[t] = "init_lock"
  /\ ncclDebugLock = NoThread
  /\ ncclDebugLock' = t
  /\ Goto(t, "init_check")
  /\ UNCHANGED << globals, ncclDebugNoWarn, tid, env, clock, nOpen, fr,
                  ncalls, ghosts >>

\* a second check that never returns early
AlreadyInitialized_Never(level) == FALSE

\* whether line 63 takes the early return
AlreadyInitialized(level) == level # -1

\* an early return that forgets the unlock
InitCheck_ReturnsLocked(t) ==
  /\ pc[t] = "init_check"
  /\ IF AlreadyInitialized(ncclDebugLevel)
       THEN /\ Goto(t, fr[t].ret)
            /\ initDone' = TRUE
       ELSE /\ Goto(t, "init_level")
            /\ UNCHANGED initDone
  /\ UNCHANGED << globals, ncclDebugLock, ncclDebugNoWarn, tid, env, clock,
                  nOpen, fr, ncalls, nParse, lastWarn, lastWarnCall, warnRet,
                  warnKeptRet >>

\* line 63: the second check, under the mutex
InitCheck(t) ==
  /\ pc[t] = "init_check"
  /\ IF AlreadyInitialized(ncclDebugLevel)
       THEN /\ ncclDebugLock' = NoThread
            /\ Goto(t, fr[t].ret)
            /\ initDone' = TRUE
       ELSE /\ Goto(t, "init_level")
            /\ UNCHANGED << ncclDebugLock, initDone >>
  /\ UNCHANGED << globals, ncclDebugNoWarn, tid, env, clock, nOpen, fr,
                  ncalls, nParse, lastWarn, lastWarnCall, warnRet,
                  warnKeptRet >>

\* lines 64-78: NCCL_DEBUG into tempNcclDebugLevel
InitLevel(t) ==
  /\ pc[t] = "init_level"
  /\ fr' = [fr EXCEPT ![t].temp = DebugLevelOf(env.debug)]
  /\ nParse' = nParse + 1
  /\ Goto(t, "init_subsys")
  /\ UNCHANGED << globals, ncclDebugLock, ncclDebugNoWarn, tid, env, clock,
                  nOpen, ncalls, initDone, lastWarn, lastWarnCall, warnRet,
                  warnKeptRet >>

\* lines 84-88: NCCL_DEBUG_SUBSYS, the '^' and the starting mask
InitSubsys(t) ==
  /\ pc[t] = "init_subsys"
  /\ IF IsNull(env.subsys)
       THEN /\ Goto(t, "init_host")
            /\ UNCHANGED << ncclDebugMask, fr >>
       ELSE /\ fr' = [fr EXCEPT ![t].invert = SubsysInvert(Deref(env.subsys))]
            /\ ncclDebugMask' = SubsysStart(SubsysInvert(Deref(env.subsys)))
            /\ Goto(t, "init_tokens")
  /\ UNCHANGED << ncclDebugLevel, rank, nranks, pid, hostname, ncclLastError,
                  ncclDebugFile, ncclEpoch, ncclDebugLock, ncclDebugNoWarn,
                  tid, env, clock, nOpen, ncalls, ghosts >>

\* lines 89-129: the strtok loop
InitTokens(t) ==
  /\ pc[t] = "init_tokens"
  /\ ncclDebugMask' =
       SubsysLoop(SubsysBody(Deref(env.subsys)), fr[t].invert, ncclDebugMask)
  /\ Goto(t, "init_host")
  /\ UNCHANGED << ncclDebugLevel, rank, nranks, pid, hostname, ncclLastError,
                  ncclDebugFile, ncclEpoch, ncclDebugLock, ncclDebugNoWarn,
                  tid, env, clock, nOpen, fr, ncalls, ghosts >>

\* lines 133-134: getHostName and getpid
InitHost(t) ==
  /\ pc[t] = "init_host"
  /\ hostname' = env.host
  /\ pid' = env.pid
  /\ Goto(t, "init_file")
  /\ UNCHANGED << ncclDebugLevel, rank, nranks, ncclLastError, ncclDebugMask,
                  ncclDebugFile, ncclEpoch, ncclDebugLock, ncclDebugNoWarn,
                  tid, env, clock, nOpen, fr, ncalls, ghosts >>

\* an expansion that does not look at the level
WantsFile_AtAnyLevel(temp, fileEnv) == ~IsNull(fileEnv)

\* whether line 141 expands NCCL_DEBUG_FILE
WantsFile(temp, fileEnv) == temp > NCCL_LOG_VERSION /\ ~IsNull(fileEnv)

\* lines 140-144: NCCL_DEBUG_FILE, c = 0 and the empty debugFn
InitFile(t) ==
  /\ pc[t] = "init_file"
  /\ IF WantsFile(fr[t].temp, env.file)
       THEN /\ fr' = [fr EXCEPT ![t].c = 0, ![t].debugFn = << >>]
            /\ Goto(t, "init_expand")
       ELSE /\ Goto(t, "init_epoch")
            /\ UNCHANGED fr
  /\ UNCHANGED << globals, ncclDebugLock, ncclDebugNoWarn, tid, env, clock,
                  nOpen, ncalls, ghosts >>

(***************************************************************************)
(* The expansion of NCCL_DEBUG_FILE (lines 142-166).  debugFn is the bytes *)
(* stored so far, so dfn - debugFn is Len(debugFn).                        *)
(***************************************************************************)
\* the memory ncclDebugFileEnv points to: the template, its NUL, and the
\* bytes that happen to follow it
EnvMemory(e) == Deref(e.file) \o << NUL >> \o e.tail

\* ncclDebugFileEnv[c]; beyond the modelled memory every byte is NUL
EnvByte(e, c) ==
  IF c < Len(EnvMemory(e)) THEN EnvMemory(e)[c + 1] ELSE NUL

\* a read of ncclDebugFileEnv[c] is outside the string when c is past its NUL
PastNul(e, c) == c > Len(Deref(e.file))

\* the bytes snprintf(dfn, size, "%s", s) accounts for: it stores the first
\* size-1 characters, and returns (dfn advances by) Len(s)
SnprintfBytes(s, size) ==
  [i \in 1..Len(s) |-> IF i <= size - 1 THEN s[i] ELSE NUL]

\* the highest index of debugFn a store of these bytes at dfn touches,
\* counting the NUL snprintf appends
SnprintfTop(dfn, s, size) == dfn + Min(Len(s), size - 1)

\* line 145: the loop's condition
ExpandMore(e, c) == EnvByte(e, c) # NUL /\ c < PATH_MAX

\* lines 146-164: one pass of the loop's body over the locals
\* st = [c, debugFn, oob, overread]
ExpandPass(e, host, p, st) ==
  LET ch1 == EnvByte(e, st.c)
      ch2 == EnvByte(e, st.c + 1)
      dfn == Len(st.debugFn)
  IN  IF ch1 # "%"
        THEN [ c |-> st.c + 1,
               debugFn |-> Append(st.debugFn, ch1),
               oob |-> st.oob \/ dfn > PATH_MAX,
               overread |-> st.overread \/ PastNul(e, st.c) ]
      ELSE IF ch2 = "%"
        THEN [ c |-> st.c + 2,
               debugFn |-> Append(st.debugFn, "%"),
               oob |-> st.oob \/ dfn > PATH_MAX,
               overread |-> st.overread \/ PastNul(e, st.c + 1) ]
      ELSE IF ch2 = "h"
        THEN [ c |-> st.c + 2,
               debugFn |-> st.debugFn \o SnprintfBytes(host, PATH_MAX),
               oob |-> st.oob \/ SnprintfTop(dfn, host, PATH_MAX) > PATH_MAX,
               overread |-> st.overread \/ PastNul(e, st.c + 1) ]
      ELSE IF ch2 = "p"
        THEN [ c |-> st.c + 2,
               debugFn |-> st.debugFn \o SnprintfBytes(IntToDec(p), PATH_MAX),
               oob |-> st.oob
                         \/ SnprintfTop(dfn, IntToDec(p), PATH_MAX) > PATH_MAX,
               overread |-> st.overread \/ PastNul(e, st.c + 1) ]
      ELSE [ c |-> st.c + 2,
             debugFn |-> st.debugFn \o << "%", ch2 >>,
             oob |-> st.oob \/ dfn + 1 > PATH_MAX,
             overread |-> st.overread \/ PastNul(e, st.c + 1) ]

\* the C string a byte buffer holds: its bytes before the first NUL
CString(bytes) ==
  LET nuls == { i \in 1..Len(bytes) : bytes[i] = NUL }
  IN  IF nuls = {} THEN bytes
      ELSE SubSeq(bytes, 1, (CHOOSE i \in nuls : \A j \in nuls : i <= j) - 1)

\* line 167: debugFn[0] != '\0', for the bytes stored before line 166 (an
\* untouched debugFn is all NUL)
PathNotEmpty(bytes) == bytes # << >> /\ bytes[1] # NUL

\* the loop's locals in a frame
ExpandState(f) ==
  [c |-> f.c, debugFn |-> f.debugFn, oob |-> f.oob, overread |-> f.overread]

\* lines 145-165: the loop's test and one pass of its body
InitExpand(t) ==
  /\ pc[t] = "init_expand"
  /\ IF ExpandMore(env, fr[t].c)
       THEN LET st == ExpandPass(env, hostname, pid, ExpandState(fr[t]))
            IN  /\ fr' = [fr EXCEPT ![t].c = st.c, ![t].debugFn = st.debugFn,
                                    ![t].oob = st.oob,
                                    ![t].overread = st.overread]
                /\ UNCHANGED pc
       ELSE /\ fr' = [fr EXCEPT ![t].overread = @ \/ PastNul(env, fr[t].c)]
            /\ Goto(t, "init_open")
  /\ UNCHANGED << globals, ncclDebugLock, ncclDebugNoWarn, tid, env, clock,
                  nOpen, ncalls, ghosts >>

\* lines 166-173: terminate debugFn, fopen it unless it is empty; fopen
\* may fail
InitOpen(t) ==
  /\ pc[t] = "init_open"
  /\ fr' = [fr EXCEPT ![t].debugFn = Append(@, NUL),
                      ![t].oob = @ \/ Len(fr[t].debugFn) > PATH_MAX]
  /\ \/ /\ PathNotEmpty(fr[t].debugFn)
        /\ nOpen' = nOpen + 1
        /\ ncclDebugFile' = nOpen + 1
     \/ /\ UNCHANGED << nOpen, ncclDebugFile >>
  /\ Goto(t, "init_epoch")
  /\ UNCHANGED << ncclDebugLevel, rank, nranks, pid, hostname, ncclLastError,
                  ncclDebugMask, ncclEpoch, ncclDebugLock, ncclDebugNoWarn,
                  tid, env, clock, ncalls, ghosts >>

\* line 176: ncclEpoch = steady_clock::now(); the clock never runs backwards
InitEpoch(t) ==
  /\ pc[t] = "init_epoch"
  /\ \E now \in clock..MaxClock :
       /\ clock' = now
       /\ ncclEpoch' = now
  /\ Goto(t, "init_store")
  /\ UNCHANGED << ncclDebugLevel, rank, nranks, pid, hostname, ncclLastError,
                  ncclDebugMask, ncclDebugFile, ncclDebugLock,
                  ncclDebugNoWarn, tid, env, nOpen, fr, ncalls, ghosts >>

\* the level line 179 publishes
PublishedLevel(temp) == temp

\* line 179: __atomic_store_n(&ncclDebugLevel, tempNcclDebugLevel, RELEASE)
InitStore(t) ==
  /\ pc[t] = "init_store"
  /\ ncclDebugLevel' = PublishedLevel(fr[t].temp)
  /\ Goto(t, "init_unlock")
  /\ UNCHANGED << rank, nranks, pid, hostname, ncclLastError, ncclDebugMask,
                  ncclDebugFile, ncclEpoch, ncclDebugLock, ncclDebugNoWarn,
                  tid, env, clock, nOpen, fr, ncalls, ghosts >>

\* lines 180-181: unlock and return
InitUnlock(t) ==
  /\ pc[t] = "init_unlock"
  /\ ncclDebugLock' = NoThread
  /\ initDone' = TRUE
  /\ Goto(t, fr[t].ret)
  /\ UNCHANGED << globals, ncclDebugNoWarn, tid, env, clock, nOpen, fr,
                  ncalls, nParse, lastWarn, lastWarnCall, warnRet,
                  warnKeptRet >>

\* the steps of ncclDebugInit
InitStep(t) ==
  \/ InitLock(t) \/ InitCheck(t) \/ InitLevel(t) \/ InitSubsys(t)
  \/ InitTokens(t) \/ InitHost(t) \/ InitFile(t) \/ InitExpand(t)
  \/ InitOpen(t) \/ InitEpoch(t) \/ InitStore(t) \/ InitUnlock(t)

(***************************************************************************)
(* ncclDebugSetDistributorParams (lines 43-59).                            *)
(***************************************************************************)
CallSetDistributorParams(t, _rank, _nranks) ==
  /\ pc[t] = "idle"
  /\ ncalls < MaxCalls
  /\ ncalls' = ncalls + 1
  /\ fr' = [fr EXCEPT ![t] = [IdleFrame EXCEPT !.op = "setparams",
                                               !.a_rank = _rank,
                                               !.a_nranks = _nranks]]
  /\ Goto(t, "set_lock")
  /\ UNCHANGED << globals, ncclDebugLock, ncclDebugNoWarn, tid, env, clock,
                  nOpen, ghosts >>

\* an entry that does not take the mutex
SetLock_WithoutMutex(t) ==
  /\ pc[t] = "set_lock"
  /\ Goto(t, "set_rank")
  /\ UNCHANGED << globals, ncclDebugLock, ncclDebugNoWarn, tid, env, clock,
                  nOpen, fr, ncalls, ghosts >>

\* line 44: pthread_mutex_lock
SetLock(t) ==
  /\ pc[t] = "set_lock"
  /\ ncclDebugLock = NoThread
  /\ ncclDebugLock' = t
  /\ Goto(t, "set_rank")
  /\ UNCHANGED << globals, ncclDebugNoWarn, tid, env, clock, nOpen, fr,
                  ncalls, ghosts >>

\* a width taken from the highest rank instead of the number of ranks
PadWidth_OfHighestRank(_nranks) == numDigits(_nranks - 1)

\* the width line 48 computes
PadWidth(_nranks) == numDigits(_nranks)

\* lines 48-52: ndigits and the rank string
SetRank(t) ==
  /\ pc[t] = "set_rank"
  /\ fr' = [fr EXCEPT ![t].ndigits = PadWidth(fr[t].a_nranks)]
  /\ rank' = SetfillSetw(PadWidth(fr[t].a_nranks), fr[t].a_rank)
  /\ Goto(t, "set_nranks")
  /\ UNCHANGED << ncclDebugLevel, nranks, pid, hostname, ncclLastError,
                  ncclDebugMask, ncclDebugFile, ncclEpoch, ncclDebugLock,
                  ncclDebugNoWarn, tid, env, clock, nOpen, ncalls, ghosts >>

\* lines 54-56: the nranks string
SetNranks(t) ==
  /\ pc[t] = "set_nranks"
  /\ nranks' = SetfillSetw(fr[t].ndigits, fr[t].a_nranks)
  /\ Goto(t, "set_unlock")
  /\ UNCHANGED << ncclDebugLevel, rank, pid, hostname, ncclLastError,
                  ncclDebugMask, ncclDebugFile, ncclEpoch, ncclDebugLock,
                  ncclDebugNoWarn, tid, env, clock, nOpen, fr, ncalls,
                  ghosts >>

\* line 58: pthread_mutex_unlock
SetUnlock(t) ==
  /\ pc[t] = "set_unlock"
  /\ ncclDebugLock' = NoThread
  /\ Goto(t, "done")
  /\ UNCHANGED << globals, ncclDebugNoWarn, tid, env, clock, nOpen, fr,
                  ncalls, ghosts >>

\* the steps of ncclDebugSetDistributorParams
SetStep(t) == SetLock(t) \/ SetRank(t) \/ SetNranks(t) \/ SetUnlock(t)

(***************************************************************************)
(* ncclDebugLog (lines 206-261).                                           *)
(***************************************************************************)
\* a caller assigns its thread's ncclDebugNoWarn (line 25)
SetNoWarn(t, v) ==
  /\ pc[t] = "idle"
  /\ ncclDebugNoWarn[t] # v
  /\ ncclDebugNoWarn' = [ncclDebugNoWarn EXCEPT ![t] = v]
  /\ UNCHANGED << globals, ncclDebugLock, tid, env, clock, nOpen, pc, fr,
                  ncalls, ghosts >>

\* a call ncclDebugLog(level, flags, filefunc, line, fmt, ...): ff is the
\* length of filefunc, m the message fmt and its arguments format to
CallLog(t, level, flags, ff, line, m) ==
  /\ pc[t] = "idle"
  /\ ncalls < MaxCalls
  /\ ncalls' = ncalls + 1
  /\ fr' = [fr EXCEPT ![t] = [IdleFrame EXCEPT !.op = "log",
                                               !.argLevel = level,
                                               !.late = initDone,
                                               !.level = level,
                                               !.flags = flags,
                                               !.filefunc = ff,
                                               !.line = line,
                                               !.msg = m]]
  /\ Goto(t, "log_load")
  /\ UNCHANGED << globals, ncclDebugLock, ncclDebugNoWarn, tid, env, clock,
                  nOpen, ghosts >>

\* line 207: the atomic load; ncclDebugInit is called when it reads -1
LogLoad(t) ==
  /\ pc[t] = "log_load"
  /\ IF ncclDebugLevel = -1
       THEN /\ fr' = [fr EXCEPT ![t].ret = "log_nowarn"]
            /\ Goto(t, "init_lock")
       ELSE /\ Goto(t, "log_nowarn")
            /\ UNCHANGED fr
  /\ UNCHANGED << globals, ncclDebugLock, ncclDebugNoWarn, tid, env, clock,
                  nOpen, ncalls, ghosts >>

\* a rewrite of the level that keeps the caller's flags
NoWarnRewrite_KeepsFlags(noWarn, level, flags) ==
  IF noWarn # {} /\ level = NCCL_LOG_WARN
    THEN [level |-> NCCL_LOG_INFO, flags |-> flags]
    ELSE [level |-> level, flags |-> flags]

\* line 208: the (level, flags) the call goes on with
NoWarnRewrite(noWarn, level, flags) ==
  IF noWarn # {} /\ level = NCCL_LOG_WARN
    THEN [level |-> NCCL_LOG_INFO, flags |-> noWarn]
    ELSE [level |-> level, flags |-> flags]

\* a call that never saves its message
AfterRewrite_NeverSaves(level) == "log_filter"

\* line 211: where a call of this level goes next
AfterRewrite(level) ==
  IF level = NCCL_LOG_WARN THEN "log_lock" ELSE "log_filter"

\* line 208, and the test of line 211
LogNoWarn(t) ==
  /\ pc[t] = "log_nowarn"
  /\ LET lf == NoWarnRewrite(ncclDebugNoWarn[t], fr[t].level, fr[t].flags)
     IN  /\ fr' = [fr EXCEPT ![t].level = lf.level, ![t].flags = lf.flags]
         /\ Goto(t, AfterRewrite(lf.level))
         /\ lastWarnCall' =
              IF fr[t].argLevel = NCCL_LOG_WARN /\ lf.level # NCCL_LOG_WARN
                THEN fr[t].msg ELSE lastWarnCall
  /\ UNCHANGED << globals, ncclDebugLock, ncclDebugNoWarn, tid, env, clock,
                  nOpen, ncalls, nParse, initDone, lastWarn, warnRet,
                  warnKeptRet >>

\* line 212: pthread_mutex_lock
LogLock(t) ==
  /\ pc[t] = "log_lock"
  /\ ncclDebugLock = NoThread
  /\ ncclDebugLock' = t
  /\ lastWarn' = fr[t].msg
  /\ lastWarnCall' = fr[t].msg
  /\ Goto(t, "log_lasterr")
  /\ UNCHANGED << globals, ncclDebugNoWarn, tid, env, clock, nOpen, fr,
                  ncalls, nParse, initDone, warnRet, warnKeptRet >>

\* a save bounded by the size of the line buffer instead
LastErrorOf_LineBufferSize(m) == Vsnprintf(m, BufferSize)

\* what line 215 leaves in ncclLastError
LastErrorOf(m) == Vsnprintf(m, LastErrorSize)

\* lines 213-216: vsnprintf into ncclLastError
LogLastError(t) ==
  /\ pc[t] = "log_lasterr"
  /\ ncclLastError' = LastErrorOf(fr[t].msg)
  /\ Goto(t, "log_unlock")
  /\ UNCHANGED << ncclDebugLevel, rank, nranks, pid, hostname, ncclDebugMask,
                  ncclDebugFile, ncclEpoch, ncclDebugLock, ncclDebugNoWarn,
                  tid, env, clock, nOpen, fr, ncalls, ghosts >>

\* line 217: pthread_mutex_unlock
LogUnlock(t) ==
  /\ pc[t] = "log_unlock"
  /\ ncclDebugLock' = NoThread
  /\ Goto(t, "log_filter")
  /\ UNCHANGED << globals, ncclDebugNoWarn, tid, env, clock, nOpen, fr,
                  ncalls, ghosts >>

\* a filter that also drops the records at the configured level
LevelPasses_Strict(debugLevel, level) == debugLevel > level

\* line 219, first operand: the record is dropped when this is false
LevelPasses(debugLevel, level) == ~(debugLevel < level)

\* line 219, second operand: the record is dropped when this is false
MaskPasses(flags, debugMask) == ~((flags \cap debugMask) = {})

\* line 219: the read of ncclDebugLevel
LogFilter(t) ==
  /\ pc[t] = "log_filter"
  /\ fr' = [fr EXCEPT ![t].rdLevel = ncclDebugLevel]
  /\ Goto(t, IF LevelPasses(ncclDebugLevel, fr[t].level)
               THEN "log_filter_mask" ELSE "done")
  /\ UNCHANGED << globals, ncclDebugLock, ncclDebugNoWarn, tid, env, clock,
                  nOpen, ncalls, ghosts >>

\* an if/else chain that prints the INFO prefix for ABORT too
PrefixBranch_AbortAsInfo(level) ==
  IF level = NCCL_LOG_WARN \/ level = NCCL_LOG_INFO \/ level = NCCL_LOG_ABORT
    THEN "log_rank"
  ELSE IF level = NCCL_LOG_TRACE THEN "log_trace"
  ELSE "log_emit"

\* where line 228-248's if/else chain goes for a level
PrefixBranch(level) ==
  IF level = NCCL_LOG_WARN \/ level = NCCL_LOG_INFO THEN "log_rank"
  ELSE IF level = NCCL_LOG_TRACE THEN "log_trace"
  ELSE "log_emit"

\* line 219: the read of ncclDebugMask; lines 221-225 when the record passes
LogFilterMask(t) ==
  /\ pc[t] = "log_filter_mask"
  /\ fr' = [fr EXCEPT ![t].rdMask = ncclDebugMask]
  /\ IF MaskPasses(fr[t].flags, ncclDebugMask)
       THEN /\ tid' = [tid EXCEPT ![t] = IF @ = -1 THEN env.tids[t] ELSE @]
            /\ Goto(t, PrefixBranch(fr[t].level))
       ELSE /\ Goto(t, "done")
            /\ UNCHANGED tid
  /\ UNCHANGED << globals, ncclDebugLock, ncclDebugNoWarn, env, clock,
                  nOpen, ncalls, ghosts >>

\* the value snprintf returns for the WARN and the INFO prefix (lines 229-233
\* and 236-240): 28 literal characters, the rank and nranks strings, the 23
\* characters of get_local_now ("%F %T," and three digits), filefunc, line,
\* hostname and pid
WarnInfoPrefixLen(rk, nrk, ff, line, host, p) ==
  28 + Len(rk) + Len(nrk) + 23 + ff + Len(IntToDec(line)) + Len(host)
     + Len(IntToDec(p))

\* line 242: "[%s:pid=%d] NCCL CALL "
CallPrefixLen(host, p) == 18 + Len(host) + Len(IntToDec(p))

\* lines 246-247: "[%s:pid=%d] %f %s:%d NCCL TRACE "; %f prints the whole
\* milliseconds, a point and six digits
TracePrefixLen(host, p, ms, ff, line) ==
  22 + Len(host) + Len(IntToDec(p)) + (Len(NatToDec(ms)) + 7) + ff
     + Len(IntToDec(line))

\* lines 229-232 and 236-239: rank.c_str() is read, without the mutex
LogRank(t) ==
  /\ pc[t] = "log_rank"
  /\ fr' = [fr EXCEPT ![t].rdRank = rank]
  /\ Goto(t, "log_nranks")
  /\ UNCHANGED << globals, ncclDebugLock, ncclDebugNoWarn, tid, env, clock,
                  nOpen, ncalls, ghosts >>

\* lines 229-233 and 236-240: nranks.c_str() is read and the prefix printed
LogNranks(t) ==
  /\ pc[t] = "log_nranks"
  /\ fr' = [fr EXCEPT
       ![t].rdNranks = nranks,
       ![t].label = IF fr[t].level = NCCL_LOG_WARN THEN "WARN" ELSE "INFO",
       ![t].len = WarnInfoPrefixLen(fr[t].rdRank, nranks, fr[t].filefunc,
                                    fr[t].line, hostname, pid)]
  /\ Goto(t, IF fr[t].level = NCCL_LOG_WARN THEN "log_escalate"
                                            ELSE "log_emit")
  /\ UNCHANGED << globals, ncclDebugLock, ncclDebugNoWarn, tid, env, clock,
                  nOpen, ncalls, ghosts >>

\* line 234: the level after an emitted WARN
Escalated(param, debugLevel) ==
  IF param # 0 THEN NCCL_LOG_INFO ELSE debugLevel

\* line 234: if (ncclParamWarnSetDebugInfo()) ncclDebugLevel = NCCL_LOG_INFO
LogEscalate(t) ==
  /\ pc[t] = "log_escalate"
  /\ ncclDebugLevel' = Escalated(env.warnSetDebugInfo, ncclDebugLevel)
  /\ Goto(t, "log_emit")
  /\ UNCHANGED << rank, nranks, pid, hostname, ncclLastError, ncclDebugMask,
                  ncclDebugFile, ncclEpoch, ncclDebugLock, ncclDebugNoWarn,
                  tid, env, clock, nOpen, fr, ncalls, ghosts >>

\* lines 241-247: the two TRACE prefixes
LogTrace(t) ==
  /\ pc[t] = "log_trace"
  /\ IF fr[t].flags = NCCL_CALL
       THEN /\ fr' = [fr EXCEPT ![t].label = "CALL",
                                ![t].len = CallPrefixLen(hostname, pid)]
            /\ UNCHANGED clock
       ELSE \E now \in clock..MaxClock :
            /\ clock' = now
            /\ fr' = [fr EXCEPT
                 ![t].label = "TRACE",
                 ![t].len = TracePrefixLen(hostname, pid, now - ncclEpoch,
                                           fr[t].filefunc, fr[t].line)]
  /\ Goto(t, "log_emit")
  /\ UNCHANGED << globals, ncclDebugLock, ncclDebugNoWarn, tid, env, nOpen,
                  ncalls, ghosts >>

\* line 257: the length after the rewind
Rewind(len) == IF len > BufferSize THEN BufferSize - 1 ELSE len

\* lines 250-259 for a prefix of len0 > 0 (snprintf's return value) and a
\* message m: the highest index of buffer stored to, the bytes handed to
\* fwrite, and the characters of m among them
\*   line 229-247: snprintf stores min(len0, 2047) characters and a NUL
\*   line 253: vsnprintf(buffer+len, sizeof(buffer)-len, ...) stores at most
\*     size-1 characters and a NUL; size is a size_t, so a len0 above 2048
\*     makes it huge and the whole message is stored from buffer+len0 on
\*   line 258: buffer[len++] = '\n'
AssembleLine(len0, m) ==
  LET size == BufferSize - len0
      kept == IF size < 0 THEN m.len
              ELSE IF size = 0 THEN 0
              ELSE Min(m.len, size - 1)
      top1 == Min(len0, BufferSize - 1)
      top2 == IF size = 0 THEN top1 ELSE len0 + kept
      len == Rewind(len0 + m.len)
  IN  [ storeMax |-> Max(Max(top1, top2), len),
        bytes |-> len + 1,
        text |-> [id |-> m.id,
                  len |-> IF len0 >= BufferSize THEN 0
                          ELSE Min(kept, len - len0)] ]

\* lines 229-258 for a prefix of len0 > 0 and a message m: the index line 258
\* stores the newline at, and the index of the NUL the formatters left
\*   snprintf ends the prefix with a NUL at min(len0, 2047); when
\*   sizeof(buffer)-len is positive vsnprintf stores its own at
\*   len0 + min(m.len, size-1), over or after that one
LineEnds(len0, m) ==
  LET size == BufferSize - len0
  IN  [ nlAt  |-> Rewind(len0 + m.len),
        nulAt |-> IF size > 0 THEN len0 + Min(m.len, size - 1)
                  ELSE BufferSize - 1 ]

\* lines 250-260: the message, the newline and the one fwrite
LogEmit(t) ==
  /\ pc[t] = "log_emit"
  /\ IF fr[t].len # 0
       THEN LET l == AssembleLine(fr[t].len, fr[t].msg)
            IN  fr' = [fr EXCEPT ![t].writes = @ + 1,
                                 ![t].bytes = l.bytes,
                                 ![t].sink = ncclDebugFile,
                                 ![t].storeMax = l.storeMax,
                                 ![t].text = l.text,
                                 ![t].nlAt = LineEnds(fr[t].len, fr[t].msg).nlAt,
                                 ![t].nulAt = LineEnds(fr[t].len, fr[t].msg).nulAt]
       ELSE UNCHANGED fr
  /\ Goto(t, "done")
  /\ UNCHANGED << globals, ncclDebugLock, ncclDebugNoWarn, tid, env, clock,
                  nOpen, ncalls, ghosts >>

\* the steps of ncclDebugLog
LogStep(t) ==
  \/ LogLoad(t) \/ LogNoWarn(t) \/ LogLock(t) \/ LogLastError(t)
  \/ LogUnlock(t) \/ LogFilter(t) \/ LogFilterMask(t) \/ LogRank(t)
  \/ LogNranks(t) \/ LogEscalate(t) \/ LogTrace(t) \/ LogEmit(t)

\* the call returns to its caller
Return(t) ==
  /\ pc[t] = "done"
  /\ warnRet' = (warnRet \/ (fr[t].op = "log"
                                /\ fr[t].argLevel = NCCL_LOG_WARN))
  /\ warnKeptRet' = (warnKeptRet \/ (fr[t].op = "log"
                                        /\ fr[t].argLevel = NCCL_LOG_WARN
                                        /\ fr[t].level = NCCL_LOG_WARN))
  /\ fr' = [fr EXCEPT ![t] = IdleFrame]
  /\ Goto(t, "idle")
  /\ UNCHANGED << globals, ncclDebugLock, ncclDebugNoWarn, tid, env, clock,
                  nOpen, ncalls, nParse, initDone, lastWarn, lastWarnCall >>

(***************************************************************************)
(* The concurrent system: every thread calls the three entry points.       *)
(***************************************************************************)
S_info == << "i","n","f","o" >>
S_bogus == << "b","o","g","u","s" >>
S_notINIT == << "^","I","N","I","T" >>
S_f_p == << "f","%","p" >>
S_h1 == << "h","1" >>

\* an environment: NCCL_DEBUG, NCCL_DEBUG_SUBSYS, NCCL_DEBUG_FILE, the bytes
\* after the file template, NCCL_WARN_ENABLE_DEBUG_INFO, and what the
\* operating system answers getHostName, getpid and gettid
Environment(d, s, f, tl, w, h) ==
  [ debug |-> d, subsys |-> s, file |-> f, tail |-> tl,
    warnSetDebugInfo |-> w, host |-> h, pid |-> 42,
    tids |-> [t \in Threads |-> 100 + t] ]

\* the environments of the concurrent system
Envs ==
  { Environment(NULL, NULL, NULL, << >>, 0, S_h1),
    Environment(Some(S_info), NULL, Some(S_f_p), << >>, 0, S_h1),
    Environment(Some(S_WARN), Some(S_notINIT), NULL, << >>, 1, S_h1),
    Environment(Some(S_TRACE), Some(S_notINIT), Some(S_f_p), << >>, 0, S_h1),
    Environment(Some(S_bogus), Some(S_notINIT), Some(S_f_p), << >>, 1, S_h1),
    Environment(Some(S_bogus), NULL, NULL, << >>, 0, S_h1) }

\* the arguments of the calls of the concurrent system; thread t logs the
\* message t, the second one longer than ncclLastError
Levels == { NCCL_LOG_WARN, NCCL_LOG_INFO, NCCL_LOG_ABORT, NCCL_LOG_TRACE }
Flags == { NCCL_INIT, NCCL_CALL }
MessageOf(t) == [id |-> t, len |-> IF t = 1 THEN 12 ELSE 1500]
NoWarns == { {}, NCCL_ENV }

Init == \E e \in Envs : InitWith(e)

Next ==
  \E t \in Threads :
    \/ CallInit(t)
    \/ CallSetDistributorParams(t, 8, 128)
    \/ \E v \in NoWarns : SetNoWarn(t, v)
    \/ \E level \in Levels, flags \in Flags :
         CallLog(t, level, flags, 8, 42, MessageOf(t))
    \/ InitStep(t)
    \/ SetStep(t)
    \/ LogStep(t)
    \/ Return(t)

Spec == Init /\ [][Next]_vars

(***************************************************************************)
(* Claims about the concurrent system (Spec).                              *)
(***************************************************************************)
\* where a thread inside ncclDebugInit can be
InitPcs ==
  { "init_lock", "init_check", "init_level", "init_subsys", "init_tokens",
    "init_host", "init_file", "init_expand", "init_open", "init_epoch",
    "init_store", "init_unlock" }

\* thread t has returned from a call of ncclDebugLog
LogReturned(t) == pc[t] = "done" /\ fr[t].op = "log"

\* the five names ncclDebugInit recognises
LevelNames == { S_VERSION, S_WARN, S_INFO, S_ABORT, S_TRACE }

\* NCCL_DEBUG is set and is, up to case, one of the five names
Recognised(nccl_debug) ==
  /\ ~IsNull(nccl_debug)
  /\ \E n \in LevelNames : strcasecmpEq(Deref(nccl_debug), n)

\* C1: whatever the environment and the interleaving of ncclDebugInit and
\* ncclDebugLog calls, the body of ncclDebugInit that reads the
\* configuration runs exactly once: never twice, and once as soon as a call
\* of ncclDebugInit has returned.
C1_ParsedExactlyOnce ==
  /\ nParse <= 1
  /\ initDone => nParse = 1

\* C2: once ncclDebugInit has run, an NCCL_DEBUG that is absent or matches
\* none of VERSION, WARN, INFO, ABORT, TRACE leaves the level at NONE, not at
\* the -1 of "not initialized".
C2_UnrecognisedIsNone ==
  (initDone /\ ~Recognised(env.debug)) => ncclDebugLevel = NCCL_LOG_NONE

\* the record of a returned ncclDebugLog call failed the filter of line 219
FilterFailed(f) ==
  f.rdLevel < f.level \/ (f.flags \cap f.rdMask) = {}

\* the first 1023 characters of a message: what the 1024 bytes of
\* ncclLastError hold of it
LastErrorText(m) == [id |-> m.id, len |-> IF m.len < 1023 THEN m.len ELSE 1023]

\* C3: a WARN call on a thread whose ncclDebugNoWarn is 0 that fails the
\* filter (level too low, or no flag in the mask) has stored its message in
\* ncclLastError (it is still there, unless a later WARN call of another
\* thread has stored its own) and has written nothing.
C3_FilteredWarnSetsLastError ==
  \A t \in Threads :
    ( /\ LogReturned(t)
      /\ fr[t].argLevel = NCCL_LOG_WARN
      /\ ncclDebugNoWarn[t] = {}
      /\ FilterFailed(fr[t]) )
    => /\ fr[t].writes = 0
       /\ \/ ncclLastError = LastErrorText(fr[t].msg)
          \/ /\ lastWarn # fr[t].msg
             /\ lastWarn # EmptyText
             /\ ncclLastError = LastErrorText(lastWarn)

\* C3 witness: a WARN call whose flag the mask excludes has returned, with
\* nothing written and its message in ncclLastError
C3_Witness ==
  \E t \in Threads :
    /\ LogReturned(t)
    /\ fr[t].argLevel = NCCL_LOG_WARN
    /\ ncclDebugNoWarn[t] = {}
    /\ fr[t].rdLevel >= NCCL_LOG_WARN
    /\ (fr[t].flags \cap fr[t].rdMask) = {}
    /\ fr[t].writes = 0
    /\ ncclLastError = LastErrorText(fr[t].msg)
    /\ fr[t].msg.len > 1023

\* no call is between taking the mutex at line 212 and the store of line 215
NoSaveInProgress == \A t \in Threads : pc[t] # "log_lasterr"

\* C4 as stated: once a call invoked with WARN has returned, ncclLastError
\* is the message of the most recent call invoked with WARN, whether or not
\* the caller's ncclDebugNoWarn was set.
C4_LastErrorIsLastWarnCall ==
  (warnRet /\ NoSaveInProgress) => ncclLastError = LastErrorText(lastWarnCall)

\* C4 amended: once a call invoked with WARN on a thread whose
\* ncclDebugNoWarn was 0 has returned, ncclLastError is the message (its
\* first 1023 characters) of the most recent such call, most recent by the
\* order in which the calls took the mutex, emitted or not.
C4_LastErrorIsLastKeptWarn ==
  (warnKeptRet /\ NoSaveInProgress) => ncclLastError = LastErrorText(lastWarn)

\* C4 witness: two threads have saved a warning, the long one last, and a
\* call has returned
C4_Witness ==
  /\ warnKeptRet
  /\ NoSaveInProgress
  /\ lastWarn.len > 1023
  /\ ncclLastError = LastErrorText(lastWarn)
  /\ \E t \in Threads :
       /\ LogReturned(t)
       /\ fr[t].level = NCCL_LOG_WARN
       /\ fr[t].msg # lastWarn

\* C5: a record whose level after line 208 is WARN, INFO or TRACE is written
\* if and only if the configured level (as line 219 read it) is >= its level
\* and its flags share a bit with the configured mask ncclDebugMask; with the
\* level INFO a WARN record with a matching flag is written and a TRACE
\* record is not.
C5_WrittenIffEligible ==
  \A t \in Threads :
    ( /\ LogReturned(t)
      /\ fr[t].level \in { NCCL_LOG_WARN, NCCL_LOG_INFO, NCCL_LOG_TRACE } )
    => /\ fr[t].writes = 1
           <=> ( /\ fr[t].rdLevel >= fr[t].level
                 /\ (fr[t].flags \cap ncclDebugMask) # {} )
       /\ fr[t].writes \in { 0, 1 }
       /\ ( /\ fr[t].rdLevel = NCCL_LOG_INFO
            /\ fr[t].level = NCCL_LOG_WARN
            /\ (fr[t].flags \cap ncclDebugMask) # {} ) => fr[t].writes = 1
       /\ ( /\ fr[t].rdLevel = NCCL_LOG_INFO
            /\ fr[t].level = NCCL_LOG_TRACE ) => fr[t].writes = 0

\* C5 witness: with the level INFO a WARN record has been written
C5_Witness ==
  \E t \in Threads :
    /\ LogReturned(t)
    /\ fr[t].level = NCCL_LOG_WARN
    /\ fr[t].rdLevel = NCCL_LOG_INFO
    /\ fr[t].writes = 1
    /\ fr[t].label = "WARN"

\* a step of thread t
Moves(t) == << pc[t], fr[t] >> # << pc'[t], fr'[t] >>

\* C7: once a call of ncclDebugInit has returned, no step of a later call of
\* ncclDebugInit (one begun after that return) changes the level, the mask,
\* the sink, the hostname, the pid or the epoch.
C7_InitIdempotent ==
  [][ \A t \in Threads :
        (initDone /\ fr[t].late /\ pc[t] \in InitPcs /\ Moves(t))
        => UNCHANGED << ncclDebugLevel, ncclDebugMask, ncclDebugFile,
                        hostname, pid, ncclEpoch >> ]_vars

(***************************************************************************)
(* ncclDebugInit over a family of NCCL_DEBUG_SUBSYS lists (SpecSubsys):    *)
(* one thread calls ncclDebugInit.                                         *)
(***************************************************************************)
MaxTokens == 2

S_coll == << "c","o","l","l" >>
S_Env == << "E","n","v" >>
S_BOGUS == << "B","O","G","U","S" >>

\* the tokens the lists are made of: names in three spellings, an unknown
\* name, the empty token (two commas in a row) and a '^' that is not leading
SubsysTokens ==
  { S_INIT, S_coll, S_Env, S_ALL, S_NET, S_BOGUS, << >>, S_notINIT }

RECURSIVE JoinTokens(_)
\* the tokens with a comma between each two
JoinTokens(toks) ==
  IF toks = << >> THEN << >>
  ELSE IF Len(toks) = 1 THEN toks[1]
  ELSE toks[1] \o << "," >> \o JoinTokens(Tail(toks))

\* every list of at most MaxTokens tokens, with and without a leading '^'
SubsysLists ==
  LET seqs == UNION { [1..n -> SubsysTokens] : n \in 0..MaxTokens }
  IN  { JoinTokens(q) : q \in seqs } \cup
      { << "^" >> \o JoinTokens(q) : q \in seqs }

SubsysEnvs ==
  { Environment(d, s, Some(S_f_p), << >>, 0, S_h1) :
      d \in { Some(S_TRACE), Some(S_bogus) },
      s \in { NULL } \cup { Some(l) : l \in SubsysLists } }

InitSubsysFamily == \E e \in SubsysEnvs : InitWith(e)

NextSubsys == CallInit(1) \/ InitStep(1) \/ Return(1)

SpecSubsys == InitSubsysFamily /\ [][NextSubsys]_vars

\* the names and their bits
SubsysNames ==
  { << S_INIT, NCCL_INIT >>, << S_COLL, NCCL_COLL >>, << S_P2P, NCCL_P2P >>,
    << S_SHM, NCCL_SHM >>, << S_NET, NCCL_NET >>, << S_GRAPH, NCCL_GRAPH >>,
    << S_TUNING, NCCL_TUNING >>, << S_ENV, NCCL_ENV >>,
    << S_ALLOC, NCCL_ALLOC >>, << S_CALL, NCCL_CALL >>,
    << S_PROXY, NCCL_PROXY >>, << S_NVLS, NCCL_NVLS >>,
    << S_BOOTSTRAP, NCCL_BOOTSTRAP >>, << S_REG, NCCL_REG >>,
    << S_ALL, NCCL_ALL >> }

\* a string with its letters in lower case
Folded(str) == [i \in 1..Len(str) |-> tolower(str[i])]

\* the comma-separated tokens of a list: its maximal comma-free pieces
TokensOf(list) ==
  { SubSeq(list, i, j) :
      << i, j >> \in
        { ij \in (1..Len(list)) \X (1..Len(list)) :
            /\ ij[1] <= ij[2]
            /\ \A k \in ij[1]..ij[2] : list[k] # ","
            /\ ij[1] = 1 \/ list[ij[1] - 1] = ","
            /\ ij[2] = Len(list) \/ list[ij[2] + 1] = "," } }

\* the union of the bits of the recognised tokens of a list
RecognisedBits(list) ==
  UNION { nb[2] : nb \in { x \in SubsysNames :
                             \E tok \in TokensOf(list) :
                               Folded(tok) = Folded(x[1]) } }

\* the mask the claim gives an NCCL_DEBUG_SUBSYS
ClaimedMask(subsys) ==
  IF IsNull(subsys) THEN NCCL_INIT \cup NCCL_ENV
  ELSE IF Deref(subsys) # << >> /\ Deref(subsys)[1] = "^"
    THEN (0..63) \ RecognisedBits(Tail(Deref(subsys)))
  ELSE RecognisedBits(Deref(subsys))

\* no thread is inside ncclDebugInit
NoInitRunning == \A t \in Threads : pc[t] \notin InitPcs

\* C8: after initialization the mask is INIT + ENV when no list is set;
\* for a list without a leading '^' the union of the bits of its recognised
\* tokens (whatever their case), for a list with one ALL minus that union;
\* unknown tokens add nothing and the default bits are not kept.
C8_MaskOfSubsysList ==
  (initDone /\ NoInitRunning) => ncclDebugMask = ClaimedMask(env.subsys)

\* C8 witness: "^INIT,BOGUS" has been parsed to ALL minus INIT
C8_Witness ==
  /\ initDone
  /\ NoInitRunning
  /\ env.subsys = Some(S_notINIT \o << "," >> \o S_BOGUS)
  /\ ncclDebugMask = (0..63) \ {0}

(***************************************************************************)
(* ncclDebugInit over a family of NCCL_DEBUG_FILE templates (SpecExpand):  *)
(* one thread calls ncclDebugInit with NCCL_DEBUG=TRACE.                   *)
(***************************************************************************)
MaxTemplate == 3

\* the characters the templates are made of
TemplateChars == { "a", "%", "h", "p", "q" }

S_log_h_p == << "l","o","g",".","%","h",".","%","p" >>
S_100_done == << "1","0","0","%","%","d","o","n","e" >>

\* n times the specifier %h
RepeatH(n) == [i \in 1..(2 * n) |-> IF i % 2 = 1 THEN "%" ELSE "h"]

\* a host name of n characters
LongHost(n) == [i \in 1..n |-> "h"]

\* every template of at most MaxTemplate characters, the examples of the
\* specification, and 65 times %h
Templates ==
  UNION { [1..n -> TemplateChars] : n \in 0..MaxTemplate }
    \cup { S_log_h_p, S_100_done, RepeatH(65) }

\* the bytes that may follow the template in memory
Tails == { << >>, << "x" >>, << "%", "h" >> }

\* a two-character host name and one of 64 characters
Hosts == { S_h1, LongHost(64) }

ExpandEnvs ==
  { Environment(Some(S_TRACE), Some(S_INIT), Some(f), tl, 0, h) :
      f \in Templates, tl \in Tails, h \in Hosts }

InitExpandFamily == \E e \in ExpandEnvs : InitWith(e)

NextExpand == CallInit(1) \/ InitStep(1) \/ Return(1)

SpecExpand == InitExpandFamily /\ [][NextExpand]_vars

\* the template's characters at which the left-to-right scan of the claim
\* starts a token: every character but the one a "%" before it took as its
\* directive, i.e. one with an even number of "%" between it and the
\* previous character that is not "%"
StartsToken(tmpl, i) ==
  LET others == { k \in 1..(i - 1) : tmpl[k] # "%" }
      k0     == IF others = {} THEN 0
                ELSE CHOOSE k \in others : \A j \in others : j <= k
  IN  (i - (k0 + 1)) % 2 = 0

\* what the claim puts in the path for the token starting at character i:
\* the host name for %h, the decimal pid for %p, % for %%, %X for any other
\* %X, the character itself otherwise (a final lone % included)
TokenText(tmpl, i, host, p) ==
  IF ~StartsToken(tmpl, i) THEN << >>
  ELSE IF tmpl[i] # "%" \/ i = Len(tmpl) THEN << tmpl[i] >>
  ELSE CASE tmpl[i + 1] = "h" -> host
         [] tmpl[i + 1] = "p" -> IntToDec(p)
         [] tmpl[i + 1] = "%" -> << "%" >>
         [] OTHER -> << "%", tmpl[i + 1] >>

\* the texts of the tokens starting at characters lo..hi, in order
RECURSIVE ClaimedRange(_, _, _, _, _)
ClaimedRange(tmpl, lo, hi, host, p) ==
  IF lo > hi THEN << >>
  ELSE IF lo = hi THEN TokenText(tmpl, lo, host, p)
  ELSE LET mid == (lo + hi) \div 2
       IN  ClaimedRange(tmpl, lo, mid, host, p)
             \o ClaimedRange(tmpl, mid + 1, hi, host, p)

\* the path the claim gives for a template
ClaimedPath(tmpl, host, p) == ClaimedRange(tmpl, 1, Len(tmpl), host, p)

\* thread t has left the expansion with its debugFn terminated
Expanded(t) ==
  /\ pc[t] = "init_epoch"
  /\ WantsFile(fr[t].temp, env.file)

\* C9: for every template shorter than PATH_MAX the expanded path is the
\* template with %h, %p, %% and %X replaced as the claim says, and it is
\* held by debugFn.
C9_ExpansionFollowsGrammar ==
  \A t \in Threads :
    (Expanded(t) /\ Len(Deref(env.file)) < PATH_MAX)
    => /\ ~fr[t].oob
       /\ CString(fr[t].debugFn) = ClaimedPath(Deref(env.file), env.host, env.pid)

\* the same for the expansions that fit the PATH_MAX+1 bytes of debugFn
C9_ExpansionThatFits ==
  \A t \in Threads :
    ( /\ Expanded(t)
      /\ Len(Deref(env.file)) < PATH_MAX
      /\ ~fr[t].oob )
    => CString(fr[t].debugFn) = ClaimedPath(Deref(env.file), env.host, env.pid)

(***************************************************************************)
(* ncclDebugSetDistributorParams over a family of arguments (SpecIdentity):*)
(* one thread calls it.                                                    *)
(***************************************************************************)
MaxRank == 11

\* the ranks and the peer counts of the calls
IdentityRanks == (-1..MaxRank) \cup { 99, 100, 128 }
IdentityNranks == { -1, 0, 1, 5, 9, 10, 11, 100, 128 }

InitIdentity == InitWith(Environment(NULL, NULL, NULL, << >>, 0, S_h1))

NextIdentity ==
  \/ \E r \in IdentityRanks, n \in IdentityNranks :
       CallSetDistributorParams(1, r, n)
  \/ SetStep(1)
  \/ Return(1)

SpecIdentity == InitIdentity /\ [][NextIdentity]_vars

RECURSIVE Pow10(_)
Pow10(k) == IF k = 0 THEN 1 ELSE 10 * Pow10(k - 1)

\* the number of decimal digits of n: 0 for n <= 0
DigitCount(n) ==
  IF n <= 0 THEN 0
  ELSE CHOOSE d \in 1..10 : Pow10(d - 1) <= n /\ n < Pow10(d)

\* the value of a digit character, -1 for any other character
DigitValue(ch) ==
  IF \E d \in 0..9 : Digits[d + 1] = ch
    THEN CHOOSE d \in 0..9 : Digits[d + 1] = ch
    ELSE -1

RECURSIVE DecimalValue(_)
\* the number a string of digits denotes
DecimalValue(str) ==
  IF str = << >> THEN 0
  ELSE 10 * DecimalValue(SubSeq(str, 1, Len(str) - 1)) + DigitValue(str[Len(str)])

AllDigits(str) == \A i \in 1..Len(str) : DigitValue(str[i]) >= 0

\* str is the decimal rendering of n, filled on the left with '0' to at
\* least w characters: zeros, then a '-' for a negative n, then the digits
\* of |n| with no zero in front
ZeroPadded(str, n, w) ==
  LET signAt == { i \in 1..Len(str) : str[i] = "-" }
      body == IF n < 0
                THEN SubSeq(str, (CHOOSE i \in signAt : TRUE) + 1, Len(str))
                ELSE str
      fill == IF n < 0
                THEN SubSeq(str, 1, (CHOOSE i \in signAt : TRUE) - 1)
                ELSE << >>
      mag == IF n < 0 THEN 0 - n ELSE n
      bare == IF mag = 0 THEN 1 ELSE DigitCount(mag)
  IN  /\ (n < 0) <=> (Cardinality(signAt) = 1)
      /\ n >= 0 => signAt = {}
      /\ AllDigits(body) /\ body # << >>
      /\ DecimalValue(body) = mag
      /\ \A i \in 1..Len(fill) : fill[i] = "0"
      /\ Len(str) = Max(w, bare + (IF n < 0 THEN 1 ELSE 0))
      /\ n < 0 => Len(body) = bare

\* thread t has returned from ncclDebugSetDistributorParams
SetReturned(t) == pc[t] = "done" /\ fr[t].op = "setparams"

\* C10 as stated: both strings are the zero-padded renderings, and for
\* every rank >= 0 and peer count > 0 both have exactly digit-count(peer
\* count) characters.
C10_BothHaveWidth ==
  \A t \in Threads :
    SetReturned(t) =>
      LET w == DigitCount(fr[t].a_nranks)
      IN  /\ ZeroPadded(rank, fr[t].a_rank, w)
          /\ ZeroPadded(nranks, fr[t].a_nranks, w)
          /\ (fr[t].a_rank >= 0 /\ fr[t].a_nranks > 0)
             => (Len(rank) = w /\ Len(nranks) = w)

\* C10 amended: both strings are the decimal renderings filled on the left
\* with '0' to digit-count(peer count) characters; for a peer count > 0 the
\* peer-count string has exactly that many characters, and so has the rank
\* string when 0 <= rank and the rank has no more digits than the peer count
\* (as when rank < peer count); a rank with more digits is not cut.
C10_WidthWhenRankFits ==
  \A t \in Threads :
    SetReturned(t) =>
      LET w == DigitCount(fr[t].a_nranks)
      IN  /\ ZeroPadded(rank, fr[t].a_rank, w)
          /\ ZeroPadded(nranks, fr[t].a_nranks, w)
          /\ fr[t].a_nranks > 0 => Len(nranks) = w
          /\ ( /\ fr[t].a_rank >= 0
               /\ fr[t].a_nranks > 0
               /\ DigitCount(fr[t].a_rank) <= w ) => Len(rank) = w
          /\ ( /\ fr[t].a_rank >= 0
               /\ DigitCount(fr[t].a_rank) > w )
             => Len(rank) = DigitCount(fr[t].a_rank)

\* C10 witness: (8, 128) has given "008" and "128"
C10_Witness ==
  \E t \in Threads :
    /\ SetReturned(t)
    /\ fr[t].a_rank = 8
    /\ fr[t].a_nranks = 128
    /\ rank = << "0", "0", "8" >>
    /\ nranks = << "1", "2", "8" >>

(***************************************************************************)
(* ncclDebugLog over a family of prefix and message lengths (SpecFormat):  *)
(* one thread logs with NCCL_DEBUG=TRACE and NCCL_DEBUG_SUBSYS=ALL.        *)
(***************************************************************************)
Slack == 1

FormatEnv == Environment(Some(S_TRACE), Some(S_ALL), Some(S_f_p), << >>, 0, S_h1)

\* the WARN/INFO prefix of FormatEnv for an empty filefunc and line 42
BarePrefix == WarnInfoPrefixLen(<< "?" >>, << "?" >>, 0, 42, S_h1, 42)

\* lengths of filefunc: a short one, and those that bring the prefix within
\* Slack of sizeof(buffer)
FormatFileFuncs ==
  { 8 } \cup ((BufferSize - BarePrefix - Slack)..(BufferSize - BarePrefix + Slack))

\* message lengths: the shortest, and those that bring the line with the
\* short filefunc within Slack of sizeof(buffer)
FormatMessages ==
  { [id |-> 1, len |-> l] :
      l \in (0..Slack) \cup ((BufferSize - BarePrefix - 8 - Slack)
                               ..(BufferSize - BarePrefix - 8 + Slack)) }

FormatLevels == { NCCL_LOG_WARN, NCCL_LOG_INFO, NCCL_LOG_TRACE }

InitFormat == InitWith(FormatEnv)

NextFormat ==
  \/ \E level \in FormatLevels, flags \in Flags, ff \in FormatFileFuncs,
        m \in FormatMessages :
       CallLog(1, level, flags, ff, 42, m)
  \/ InitStep(1)
  \/ LogStep(1)
  \/ Return(1)

SpecFormat == InitFormat /\ [][NextFormat]_vars

\* C6: whatever the lengths of the prefix and of the message, a call that
\* emits hands fwrite at most 2048 bytes, newline included, and stores to no
\* index of buffer beyond 2047.
C6_LineFitsBuffer ==
  \A t \in Threads :
    (LogReturned(t) /\ fr[t].writes > 0)
    => /\ fr[t].bytes <= 2048
       /\ fr[t].storeMax < 2048

(***************************************************************************)
(* ncclDebugInit over a family of levels and NCCL_DEBUG_FILE templates     *)
(* (SpecSink): one thread calls ncclDebugInit; fopen may fail.             *)
(***************************************************************************)
S_version == << "v","e","r","s","i","o","n" >>
S_pct_h == << "%","h" >>

\* NCCL_DEBUG: absent, VERSION, WARN, TRACE and an unrecognised string
SinkDebugs == { NULL, Some(S_version), Some(S_WARN), Some(S_TRACE),
                Some(S_bogus) }

\* NCCL_DEBUG_FILE: absent, empty, and templates with %p and %h
SinkFiles == { NULL, Some(<< >>), Some(S_f_p), Some(S_pct_h) }

\* what getHostName leaves: nothing, or a two-character name
SinkHosts == { << >>, S_h1 }

SinkEnvs ==
  { Environment(d, s, f, << >>, 0, h) :
      d \in SinkDebugs, s \in { NULL, Some(S_INIT) }, f \in SinkFiles,
      h \in SinkHosts }

InitSink == \E e \in SinkEnvs : InitWith(e)

NextSink == CallInit(1) \/ InitStep(1) \/ Return(1)

SpecSink == InitSink /\ [][NextSink]_vars

\* the path ncclDebugInit would open is not empty
ExpansionNotEmpty(e) == ClaimedPath(Deref(e.file), e.host, e.pid) # << >>

\* C11: once ncclDebugInit has returned, ncclDebugFile is a file only if the
\* level is above VERSION, NCCL_DEBUG_FILE is set, its expansion is not empty
\* and fopen succeeded, and then it is the file opened; with a level of
\* VERSION or below (or unrecognised), no template, an empty expansion or a
\* failed fopen it is still stdout.
C11_FileSinkOnlyWhenOpened ==
  (initDone /\ NoInitRunning)
    => /\ ncclDebugFile # stdout
            => /\ ncclDebugLevel > NCCL_LOG_VERSION
               /\ ~IsNull(env.file)
               /\ ExpansionNotEmpty(env)
               /\ nOpen > 0
               /\ ncclDebugFile = nOpen
       /\ nOpen > 0 => ncclDebugFile = nOpen
       /\ ( \/ ncclDebugLevel <= NCCL_LOG_VERSION
            \/ IsNull(env.file)
            \/ ~ExpansionNotEmpty(env)
            \/ nOpen = 0 ) => ncclDebugFile = stdout
       /\ nOpen <= 1

\* C11 witness: with the level TRACE and the template f%p fopen has failed,
\* and ncclDebugInit has returned with stdout as the sink
C11_Witness ==
  /\ initDone
  /\ NoInitRunning
  /\ ncclDebugLevel = NCCL_LOG_TRACE
  /\ env.file = Some(S_f_p)
  /\ nOpen = 0
  /\ ncclDebugFile = stdout

\* C12: a ncclDebugLog call calls fwrite at most once, and what it writes is
\* the line it assembled in buffer: the prefix, the message and one newline,
\* which is the last byte written and lies inside buffer, with no NUL of the
\* formatters left before it.
C12_OneWriteOfTheWholeLine ==
  \A t \in Threads :
    LogReturned(t)
    => /\ fr[t].writes <= 1
       /\ fr[t].writes = 1
            => /\ fr[t].bytes = fr[t].nlAt + 1
               /\ fr[t].nlAt < BufferSize
               /\ fr[t].nulAt >= fr[t].nlAt

\* a ncclDebugLog call calls fwrite at most once, after the whole line is in
\* buffer
AtMostOneWrite ==
  \A t \in Threads :
    /\ fr[t].writes <= 1
    /\ fr[t].writes = 1 => (pc[t] = "done" /\ fr[t].bytes = fr[t].nlAt + 1)

(***************************************************************************)
(* ncclDebugLog over every level ncclDebugInit can establish, with and     *)
(* without NCCL_WARN_ENABLE_DEBUG_INFO (SpecEscalate): one thread logs.    *)
(***************************************************************************)
\* NCCL_DEBUG: absent (NONE) and the five names
EscalateDebugs == { NULL } \cup { Some(n) : n \in LevelNames }

EscalateEnvs ==
  { Environment(d, Some(S_ALL), Some(S_f_p), << >>, w, S_h1) :
      d \in EscalateDebugs, w \in { 0, 1 } }

InitEscalate == \E e \in EscalateEnvs : InitWith(e)

NextEscalate ==
  \/ \E level \in FormatLevels, flags \in Flags :
       CallLog(1, level, flags, 8, 42, MessageOf(1))
  \/ InitStep(1)
  \/ LogStep(1)
  \/ Return(1)

SpecEscalate == InitEscalate /\ [][NextEscalate]_vars

\* C13: with NCCL_WARN_ENABLE_DEBUG_INFO set, no step of a ncclDebugLog call
\* lowers the level ncclDebugInit has established, and the step of line 234
\* (taken by an emitted WARN) leaves it at INFO or above.
C13_LevelNeverLowered ==
  [][ (env.warnSetDebugInfo # 0 /\ ncclDebugLevel # -1)
        => /\ ncclDebugLevel' >= ncclDebugLevel
           /\ (pc[1] = "log_escalate" /\ pc'[1] # "log_escalate")
                => ncclDebugLevel' >= NCCL_LOG_INFO ]_vars

\* with NCCL_WARN_ENABLE_DEBUG_INFO set, the step of line 234 leaves the
\* level at INFO, whatever it was
EscalationSetsInfo ==
  [][ (env.warnSetDebugInfo # 0 /\ pc[1] = "log_escalate"
         /\ pc'[1] # "log_escalate")
        => ncclDebugLevel' = NCCL_LOG_INFO ]_vars

(***************************************************************************)
(* ncclDebugLog with ncclDebugNoWarn set on one thread (SpecNoWarn):       *)
(* thread 1 may set its ncclDebugNoWarn to NCCL_ENV, every thread logs.    *)
(***************************************************************************)
\* levels WARN, INFO and TRACE; masks with and without the ENV bit
NoWarnEnvs ==
  { Environment(Some(S_WARN), NULL, NULL, << >>, 1, S_h1),
    Environment(Some(S_INFO), NULL, NULL, << >>, 1, S_h1),
    Environment(Some(S_INFO), Some(S_INIT), NULL, << >>, 1, S_h1),
    Environment(Some(S_TRACE), Some(S_INIT), Some(S_f_p), << >>, 0, S_h1) }

NoWarnLevels == { NCCL_LOG_WARN, NCCL_LOG_TRACE }

InitNoWarn == \E e \in NoWarnEnvs : InitWith(e)

NextNoWarn ==
  \/ SetNoWarn(1, NCCL_ENV)
  \/ \E t \in Threads :
       \/ \E level \in NoWarnLevels :
            CallLog(t, level, NCCL_INIT, 8, 42, MessageOf(t))
       \/ InitStep(t)
       \/ LogStep(t)
       \/ Return(t)

SpecNoWarn == InitNoWarn /\ [][NextNoWarn]_vars

\* where a call is between line 212 and line 217, or at line 234
SaveOrEscalatePcs == { "log_lock", "log_lasterr", "log_unlock", "log_escalate" }

\* C14: a call made with WARN on a thread whose ncclDebugNoWarn is f # 0
\* goes on as INFO with flags f: it is written if and only if the level the
\* filter read is at least INFO and f shares a bit with ncclDebugMask, its
\* label is INFO, and it neither saves its message nor reaches line 234;
\* a call made with WARN on a thread whose ncclDebugNoWarn is 0 stays WARN
\* with its own flags, whatever the other thread's ncclDebugNoWarn is.
C14_OverrideRewritesToInfo ==
  \A t \in Threads :
    /\ ( /\ LogReturned(t)
         /\ fr[t].argLevel = NCCL_LOG_WARN
         /\ ncclDebugNoWarn[t] # {} )
       => /\ fr[t].level = NCCL_LOG_INFO
          /\ fr[t].flags = ncclDebugNoWarn[t]
          /\ fr[t].writes = 1
               <=> ( /\ fr[t].rdLevel >= NCCL_LOG_INFO
                     /\ (ncclDebugNoWarn[t] \cap ncclDebugMask) # {} )
          /\ fr[t].writes = 1 => fr[t].label = "INFO"
    /\ pc[t] \in SaveOrEscalatePcs => ncclDebugNoWarn[t] = {}
    /\ ( /\ LogReturned(t)
         /\ fr[t].argLevel = NCCL_LOG_WARN
         /\ ncclDebugNoWarn[t] = {} )
       => /\ fr[t].level = NCCL_LOG_WARN
          /\ fr[t].flags = NCCL_INIT
          /\ fr[t].writes = 1
               <=> ( /\ fr[t].rdLevel >= NCCL_LOG_WARN
                     /\ (NCCL_INIT \cap ncclDebugMask) # {} )
          /\ fr[t].writes = 1 => fr[t].label = "WARN"

\* C14 witness: thread 1, with ncclDebugNoWarn set, has returned from a WARN
\* call that the mask (INIT only) dropped as INFO with flags ENV, while
\* thread 2's WARN call with the same arguments was written as WARN
C14_Witness ==
  /\ ncclDebugNoWarn[1] = NCCL_ENV
  /\ LogReturned(1)
  /\ fr[1].argLevel = NCCL_LOG_WARN
  /\ fr[1].level = NCCL_LOG_INFO
  /\ fr[1].rdLevel >= NCCL_LOG_INFO
  /\ fr[1].writes = 0
  /\ LogReturned(2)
  /\ fr[2].argLevel = NCCL_LOG_WARN
  /\ fr[2].writes = 1
  /\ fr[2].label = "WARN"

\* C15: in the expansion of NCCL_DEBUG_FILE (SpecExpand), whatever the
\* template, the host name and the pid, no store goes beyond the PATH_MAX+1
\* bytes of debugFn: the bytes stored, the final NUL included, number at
\* most PATH_MAX+1.
C15_ExpansionStaysInDebugFn ==
  \A t \in Threads :
    /\ ~fr[t].oob
    /\ Len(fr[t].debugFn) <= PATH_MAX + 1

(***************************************************************************)
(* First calls racing on the initialization (SpecPublish): two threads     *)
(* call ncclDebugInit and ncclDebugLog, with a recognised and with an      *)
(* unrecognised NCCL_DEBUG.                                                *)
(***************************************************************************)
PublishEnvs ==
  { Environment(Some(S_TRACE), Some(S_notINIT), Some(S_f_p), << >>, 1, S_h1),
    Environment(Some(S_bogus), Some(S_notINIT), Some(S_f_p), << >>, 0, S_h1) }

InitPublish == \E e \in PublishEnvs : InitWith(e)

NextPublish ==
  \E t \in Threads :
    \/ CallInit(t)
    \/ \E level \in NoWarnLevels :
         CallLog(t, level, NCCL_ENV, 8, 42, MessageOf(t))
    \/ InitStep(t)
    \/ LogStep(t)
    \/ Return(t)

SpecPublish == InitPublish /\ [][NextPublish]_vars

\* where a thread is part-way through lines 64-179: it has begun to parse
\* the configuration and has not yet stored the level
ParsingPcs ==
  { "init_level", "init_subsys", "init_tokens", "init_host", "init_file",
    "init_expand", "init_open", "init_epoch", "init_store" }

\* where a ncclDebugLog call tests the mask (line 219) or formats and writes
\* its line (lines 221-260)
MaskTestOrFormatPcs ==
  { "log_filter_mask", "log_rank", "log_nranks", "log_escalate", "log_trace",
    "log_emit" }

\* C16: no ncclDebugLog call tests the mask or formats its line while
\* another thread is part-way through parsing the configuration, and once
\* the level is not -1 no step changes the mask, the hostname, the pid, the
\* sink or the epoch: a thread that reads a level other than -1 reads their
\* final values.
C16_PublishedConfigIsFinal ==
  /\ [](\A t \in Threads, u \in Threads :
          pc[t] \in MaskTestOrFormatPcs => pc[u] \notin ParsingPcs)
  /\ [][ ncclDebugLevel # -1
           => UNCHANGED << ncclDebugMask, hostname, pid, ncclDebugFile,
                           ncclEpoch >> ]_vars

\* C16 witness: thread 1's ncclDebugLog call, which began before any
\* ncclDebugInit had returned, tests the mask while thread 2 has parsed the
\* configuration, has just stored the level and still holds the mutex
C16_Witness ==
  /\ pc[1] = "log_filter_mask"
  /\ ~fr[1].late
  /\ pc[2] = "init_unlock"
  /\ ncclDebugLock = 2
  /\ nParse = 1
  /\ ncclDebugLevel = NCCL_LOG_TRACE
  /\ ncclDebugMask = NCCL_ALL \ NCCL_INIT

(***************************************************************************)
(* ncclDebugLog racing ncclDebugSetDistributorParams (SpecRace): every     *)
(* thread may log and may set rank 8 of 128.                               *)
(***************************************************************************)
RaceEnv ==
  Environment(Some(S_TRACE), Some(S_notINIT), Some(S_f_p), << >>, 1, S_h1)

InitRace == InitWith(RaceEnv)

NextRace ==
  \E t \in Threads :
    \/ CallSetDistributorParams(t, 8, 128)
    \/ \E level \in NoWarnLevels :
         CallLog(t, level, NCCL_ENV, 8, 42, MessageOf(t))
    \/ InitStep(t)
    \/ SetStep(t)
    \/ LogStep(t)
    \/ Return(t)

SpecRace == InitRace /\ [][NextRace]_vars

S_008 == << "0","0","8" >>
S_128 == << "1","2","8" >>

\* C17: ncclDebugSetDistributorParams writes rank and then nranks while it
\* holds the mutex (after line 52 rank is the new string), and a
\* ncclDebugLog call reads rank and nranks for its prefix without holding
\* it, so it can read them between the two writes.
C17_IdentityReadWithoutMutex ==
  \A t \in Threads :
    /\ pc[t] \in { "set_rank", "set_nranks", "set_unlock" }
         => ncclDebugLock = t
    /\ pc[t] \in { "set_nranks", "set_unlock" }
         => rank = SetfillSetw(numDigits(fr[t].a_nranks), fr[t].a_rank)
    /\ pc[t] = "set_unlock"
         => nranks = SetfillSetw(numDigits(fr[t].a_nranks), fr[t].a_nranks)
    /\ pc[t] \in { "log_rank", "log_nranks" } => ncclDebugLock # t

\* C17 witness: thread 1 has read the new rank and is about to read nranks
\* for its prefix while thread 2 holds the mutex between line 52 and line
\* 56: rank is "008" and nranks is still "?"
C17_Witness ==
  /\ pc[1] = "log_nranks"
  /\ fr[1].rdRank = S_008
  /\ pc[2] = "set_nranks"
  /\ ncclDebugLock = 2
  /\ rank = S_008
  /\ nranks = << "?" >>

\* the prefix of a returned call can carry the new rank and the old nranks
MixedPrefixWritten ==
  \E t \in Threads :
    /\ LogReturned(t)
    /\ fr[t].writes = 1
    /\ fr[t].rdRank = S_008
    /\ fr[t].rdNranks = << "?" >>

(***************************************************************************)
(* The three entry points under fair scheduling (SpecLive): every thread   *)
(* that has a step to take is eventually given the processor.              *)
(***************************************************************************)
LiveEnvs == PublishEnvs

InitLive == \E e \in LiveEnvs : InitWith(e)

\* a step of thread t inside a call, and its return
Runs(t) == InitStep(t) \/ SetStep(t) \/ LogStep(t) \/ Return(t)

NextLive ==
  \E t \in Threads :
    \/ CallInit(t)
    \/ CallSetDistributorParams(t, 8, 128)
    \/ \E level \in NoWarnLevels :
         CallLog(t, level, NCCL_ENV, 8, 42, MessageOf(t))
    \/ Runs(t)

SpecLive ==
  InitLive /\ [][NextLive]_vars /\ \A t \in Threads : WF_vars(Runs(t))

\* where a thread waits for the mutex (lines 44, 62 and 212)
WaitingPcs == { "set_lock", "init_lock", "log_lock" }

\* where a thread holds the mutex: lines 45-58, 63-180 and 213-217
HoldingPcs ==
  { "set_rank", "set_nranks", "set_unlock",
    "init_check", "init_level", "init_subsys", "init_tokens", "init_host",
    "init_file", "init_expand", "init_open", "init_epoch", "init_store",
    "init_unlock",
    "log_lasterr", "log_unlock" }

\* C18: the mutex is held only by a thread between a lock and its unlock,
\* never by one that has returned or has gone on past the unlock; so the
\* threads are never all waiting for a mutex that is held, and under fair
\* scheduling every call that has begun returns.
C18_MutexReleasedAndCallsReturn ==
  /\ [](\A t \in Threads : (ncclDebugLock = t) <=> (pc[t] \in HoldingPcs))
  /\ []((\A t \in Threads : pc[t] \in WaitingPcs) => ncclDebugLock = NoThread)
  /\ \A t \in Threads : (pc[t] # "idle") ~> (pc[t] = "idle")

\* C18 witness: thread 1's WARN call, which ran ncclDebugInit itself and then
\* saved its message under the mutex, has returned with the mutex free, and
\* thread 2 is waiting for the mutex
C18_Witness ==
  /\ LogReturned(1)
  /\ fr[1].argLevel = NCCL_LOG_WARN
  /\ fr[1].ret = "log_nowarn"
  /\ nParse = 1
  /\ ncclLastError = LastErrorText(fr[1].msg)
  /\ ncclDebugLock = NoThread
  /\ pc[2] \in WaitingPcs

\* C19: in the expansion of NCCL_DEBUG_FILE (SpecExpand) the read index c
\* never goes past the index of the template's terminating NUL, and no byte
\* after that NUL is read, also when the template ends in a lone %.
C19_ReadIndexWithinTemplate ==
  \A t \in Threads :
    /\ ~fr[t].overread
    /\ pc[t] \in { "init_expand", "init_open" }
         => fr[t].c <= Len(Deref(env.file))

(***************************************************************************)
(* ncclDebugLog at every level of ncclDebugLogLevel (SpecSilent): one      *)
(* thread logs at NONE, VERSION, WARN, INFO, ABORT and TRACE.              *)
(***************************************************************************)
SilentEnvs ==
  { Environment(NULL, NULL, NULL, << >>, 1, S_h1),
    Environment(Some(S_INFO), Some(S_ALL), Some(S_f_p), << >>, 1, S_h1),
    Environment(Some(S_ABORT), NULL, Some(S_f_p), << >>, 1, S_h1),
    Environment(Some(S_TRACE), Some(S_ALL), Some(S_f_p), << >>, 1, S_h1) }

AllLevels == NCCL_LOG_NONE..NCCL_LOG_TRACE

InitSilent == \E e \in SilentEnvs : InitWith(e)

NextSilent ==
  \/ \E level \in AllLevels, flags \in Flags :
       CallLog(1, level, flags, 8, 42, MessageOf(1))
  \/ InitStep(1)
  \/ LogStep(1)
  \/ Return(1)

SpecSilent == InitSilent /\ [][NextSilent]_vars

\* the levels for which lines 228-248 print no prefix
PrefixlessLevels == { NCCL_LOG_NONE, NCCL_LOG_VERSION, NCCL_LOG_ABORT }

\* where a ncclDebugLog call is in lines 208-260
LogBodyPcs ==
  { "log_nowarn", "log_lock", "log_lasterr", "log_unlock", "log_filter",
    "log_filter_mask", "log_rank", "log_nranks", "log_escalate", "log_trace",
    "log_emit" }

\* C20: a ncclDebugLog call whose level is NONE, VERSION or ABORT has
\* written nothing when it returns, and no step of its lines 208-260
\* changes the level, the mask or ncclLastError, also when the record passes
\* the filter of line 219.
C20_PrefixlessLevelsAreSilent ==
  /\ [](\A t \in Threads :
          (LogReturned(t) /\ fr[t].level \in PrefixlessLevels)
          => (fr[t].writes = 0 /\ fr[t].bytes = 0 /\ fr[t].len = 0))
  /\ [][ \A t \in Threads :
           ( /\ fr[t].op = "log"
             /\ fr[t].level \in PrefixlessLevels
             /\ pc[t] \in LogBodyPcs
             /\ Moves(t) )
           => UNCHANGED << ncclDebugLevel, ncclDebugMask, ncclLastError >> ]_vars

\* C20 witness: with the level TRACE and the mask ALL a call at ABORT has
\* passed the filter (it has taken its thread id at line 222) and has
\* returned without a write
C20_Witness ==
  /\ LogReturned(1)
  /\ fr[1].level = NCCL_LOG_ABORT
  /\ fr[1].rdLevel = NCCL_LOG_TRACE
  /\ (fr[1].flags \cap fr[1].rdMask) # {}
  /\ tid[1] # -1
  /\ fr[1].writes = 0

=============================================================================
